---- MODULE Spec2Model ----
(***************************************************************************)
(* Model of xmodule/partitions/partitions.py: the value objects Group and  *)
(* UserPartition, their JSON (de)serialization, and the process-wide       *)
(* scheme cache UserPartition._SCHEMES backed by the lazily created plugin *)
(* registry UserPartition._SCHEME_EXTENSIONS.                              *)
(*                                                                         *)
(* Python values are tagged records [t, i, s]: t is the Python type, i the *)
(* payload of an int, s the payload of a str.  A string used as an id is a *)
(* sequence of one-character strings, so that int() really parses it.      *)
(* Names (group name, scheme name, description) are never parsed and are   *)
(* plain TLA+ strings.                                                     *)
(***************************************************************************)
EXTENDS Integers, Sequences, FiniteSets, TLC

\* ------------------------------------------------------------------ bounds
\* Number of calls made by the client code in one behaviour.
MaxCalls == 3

\* --------------------------------------------------------- Python values
PyInt(k) == [t |-> "int", i |-> k, s |-> <<>>]
PyStr(s) == [t |-> "str", i |-> 0, s |-> s]
PyNoneVal == [t |-> "NoneType", i |-> 0, s |-> <<>>]
PyListVal == [t |-> "list", i |-> 0, s |-> <<>>]

\* Python's None where a name (a TLA+ string) is expected.
PyNone == "<None>"

\* a == b of Python for the tagged values: an int never equals a str.
PyEq(a, b) == a.t = b.t /\ a.i = b.i /\ a.s = b.s

\* ---------------------------------------------------------------- results
\* The outcome of a call: a returned value, or a raised exception with its
\* class (err), the message family (why) and the key the message names.
NoVal == [cls |-> "none"]
Ok(val) == [ok |-> TRUE, val |-> val, err |-> "", why |-> "", key |-> ""]
Raise(err, why, key) == [ok |-> FALSE, val |-> NoVal, err |-> err, why |-> why, key |-> key]

\* ------------------------------------------------------------------ int()
Digits == <<"0", "1", "2", "3", "4", "5", "6", "7", "8", "9">>
IsDigit(c) == \E i \in 1..10 : Digits[i] = c
DigitVal(c) == (CHOOSE i \in 1..10 : Digits[i] = c) - 1

\* The characters isspace() accepts: blank, tab, line feed, carriage
\* return, form feed and vertical tab.  TLA+ strings have no escape for the
\* vertical tab (\x0b), which is written VT.
VT == "<VT>"
Blanks == {" ", "\t", "\n", "\r", "\f", VT}
IsSpace(c) == c \in Blanks

RECURSIVE LStrip(_)
LStrip(s) == IF s # <<>> /\ IsSpace(Head(s)) THEN LStrip(Tail(s)) ELSE s

RECURSIVE RStrip(_)
RStrip(s) == IF s # <<>> /\ IsSpace(s[Len(s)]) THEN RStrip(SubSeq(s, 1, Len(s) - 1)) ELSE s

Strip(s) == RStrip(LStrip(s))

AllDigits(s) == s # <<>> /\ \A i \in 1..Len(s) : IsDigit(s[i])

RECURSIVE DigitsValue(_)
DigitsValue(s) == IF s = <<>> THEN 0
                  ELSE 10 * DigitsValue(SubSeq(s, 1, Len(s) - 1)) + DigitVal(s[Len(s)])

\* int(s) for a str s, as Python 2.7 (the runtime of this code) converts
\* it in base 10: blanks are skipped before the number, between the sign
\* and the digits, and after the number; one sign is allowed; what is left
\* must be a non-empty run of decimal digits; else ValueError.
IntOfStr(s) ==
    LET body == Strip(s)
        signed == body # <<>> /\ Head(body) \in {"+", "-"}
        digits == IF signed THEN LStrip(Tail(body)) ELSE body
    IN  IF AllDigits(digits)
        THEN Ok(IF signed /\ Head(body) = "-" THEN 0 - DigitsValue(digits) ELSE DigitsValue(digits))
        ELSE Raise("ValueError", "invalid literal for int()", "")

\* int(x): an int is itself, a str is parsed, None and a list are refused
\* with TypeError.
PyIntOf(x) ==
    CASE x.t = "int" -> Ok(x.i)
      [] x.t = "str" -> IntOfStr(x.s)
      [] OTHER -> Raise("TypeError", "int() argument must be a string or a number", "")

\* ------------------------------------------------------------------ Group
\* Group.VERSION
GROUP_VERSION == 1

\* A Python dict with string keys: a function from its keys to its values.
Dict(d) == [cls |-> "dict", d |-> d]
HasKey(value, key) == key \in DOMAIN value.d
Without(d, key) == [k \in (DOMAIN d) \ {key} |-> d[k]]

\* isinstance(value, Group), isinstance(value, UserPartition)
IsGroup(value) == value.cls = "Group"
IsUserPartition(value) == value.cls = "UserPartition"

\* The first key of keys that value does not have, "" when it has them all.
RECURSIVE FirstMissing(_, _)
FirstMissing(value, keys) ==
    IF keys = <<>> THEN ""
    ELSE IF ~HasKey(value, Head(keys)) THEN Head(keys)
    ELSE FirstMissing(value, Tail(keys))

\* Variant: every failure of the conversion is reported as a TypeError.
GroupNew_typeerror(id, name, oid) ==
    LET n == PyIntOf(id)
    IN  IF n.ok THEN Ok([cls |-> "Group", oid |-> oid, id |-> n.val, name |-> name])
        ELSE Raise("TypeError", n.why, "")

\* Group(id, name): the id is stored as int(id); oid is the identity of the
\* new object.
GroupNew(id, name, oid) ==
    LET n == PyIntOf(id)
    IN  IF n.ok THEN Ok([cls |-> "Group", oid |-> oid, id |-> n.val, name |-> name])
        ELSE n

\* Group.to_json
GroupToJson(g) ==
    Dict([id |-> PyInt(g.id), name |-> g.name, version |-> PyInt(GROUP_VERSION)])

\* Variant: the version of the mapping is not looked at.
GroupFromJson_noversion(value, oid) ==
    IF IsGroup(value) THEN Ok(value)
    ELSE LET missing == FirstMissing(value, <<"id", "name", "version">>)
         IN  IF missing # "" THEN Raise("TypeError", "missing value key", missing)
             ELSE GroupNew(value.d["id"], value.d["name"], oid)

\* Group.from_json
GroupFromJson(value, oid) ==
    IF IsGroup(value) THEN Ok(value)
    ELSE LET missing == FirstMissing(value, <<"id", "name", "version">>)
         IN  IF missing # "" THEN Raise("TypeError", "missing value key", missing)
             ELSE IF ~PyEq(value.d["version"], PyInt(GROUP_VERSION))
                  THEN Raise("TypeError", "unexpected version", "")
             ELSE GroupNew(value.d["id"], value.d["name"], oid)

\* ----------------------------------------------------- scheme and registry
\* A scheme object: inst is its identity (0: no object, None), name is
\* extension.name, or None for a scheme built without an extension.
NoScheme == [inst |-> 0, name |-> PyNone]

\* Truth value of an object in "if not x": None is false; an object of a
\* class that defines neither __nonzero__ nor __len__ is true.
Truthy(scheme) == scheme.inst # 0

\* UserPartitionScheme(extension): the plugin factory of line 134.
UserPartitionSchemeInit(inst, extension) == [inst |-> inst, name |-> extension]

\* UserPartition.VERSION, UserPartition.VERSION_1_SCHEME
VERSION == 2
VERSION_1_SCHEME == "random"

\* The names a scheme can be asked for: two plugin names, a name no plugin
\* has, and None (the name of a scheme built without an extension).
SchemeIds == {"random", "cohort", "no-such-scheme", PyNone}
PluginNames == {"random", "cohort"}

VARIABLES
    installed,          \* names of the plugins in 'openedx.user_partition_scheme'
    SCHEMES,            \* UserPartition._SCHEMES: name -> scheme, NoScheme if absent
    SCHEME_EXTENSIONS,  \* UserPartition._SCHEME_EXTENSIONS: 0 is None, else the manager
    managersCreated,    \* history: number of ExtensionManager(...) constructions
    pluginCalls,        \* history: name -> number of extension.plugin(...) calls
    ncalls,             \* number of calls made so far
    last                \* the last call: operation, arguments, result, state before

vars == <<installed, SCHEMES, SCHEME_EXTENSIONS, managersCreated, pluginCalls, ncalls, last>>

\* The process-wide state a call reads and writes; lookups is the sequence
\* of names the call asked the registry for.
Process == [SCHEMES |-> SCHEMES, SCHEME_EXTENSIONS |-> SCHEME_EXTENSIONS,
            managersCreated |-> managersCreated, pluginCalls |-> pluginCalls,
            lookups |-> <<>>]

Sum(f) == LET RECURSIVE S(_)
              S(D) == IF D = {} THEN 0
                      ELSE LET x == CHOOSE y \in D : TRUE IN f[x] + S(D \ {x})
          IN  S(DOMAIN f)

\* Variant: a new ExtensionManager on every miss of the cache.
EnsureExtensions_always(st) ==
    [st EXCEPT !.SCHEME_EXTENSIONS = st.managersCreated + 1,
               !.managersCreated = st.managersCreated + 1]

\* ExtensionManager(namespace='openedx.user_partition_scheme') when the
\* handle is None (line 128-129); an ExtensionManager object is true.
EnsureExtensions(st) ==
    IF st.SCHEME_EXTENSIONS = 0
    THEN [st EXCEPT !.SCHEME_EXTENSIONS = st.managersCreated + 1,
                    !.managersCreated = st.managersCreated + 1]
    ELSE st

\* Variant: the scheme that was built is not put in the cache.
get_scheme_nostore(name, st) ==
    LET scheme == st.SCHEMES[name]
    IN  IF Truthy(scheme) THEN [st |-> st, res |-> Ok(scheme)]
        ELSE LET s1 == EnsureExtensions(st)
                 s2 == [s1 EXCEPT !.lookups = Append(s1.lookups, name)]
             IN  IF name \notin installed
                 THEN [st |-> s2, res |-> Raise("TypeError", "Unrecognized scheme", name)]
                 ELSE LET made == UserPartitionSchemeInit(Sum(s2.pluginCalls) + 1, name)
                          s3 == [s2 EXCEPT !.pluginCalls[name] = s2.pluginCalls[name] + 1]
                      IN  [st |-> s3, res |-> Ok(made)]

\* Variant: a name the registry does not have yields None, no exception.
get_scheme_none(name, st) ==
    LET scheme == st.SCHEMES[name]
    IN  IF Truthy(scheme) THEN [st |-> st, res |-> Ok(scheme)]
        ELSE LET s1 == EnsureExtensions(st)
                 s2 == [s1 EXCEPT !.lookups = Append(s1.lookups, name)]
             IN  IF name \notin installed
                 THEN [st |-> s2, res |-> Ok(NoScheme)]
                 ELSE LET made == UserPartitionSchemeInit(Sum(s2.pluginCalls) + 1, name)
                          s3 == [s2 EXCEPT !.pluginCalls[name] = s2.pluginCalls[name] + 1,
                                           !.SCHEMES[name] = made]
                      IN  [st |-> s3, res |-> Ok(made)]

\* UserPartition.get_scheme(name): the state after the call and its result.
get_scheme(name, st) ==
    LET scheme == st.SCHEMES[name]
    IN  IF Truthy(scheme) THEN [st |-> st, res |-> Ok(scheme)]
        ELSE LET s1 == EnsureExtensions(st)
                 s2 == [s1 EXCEPT !.lookups = Append(s1.lookups, name)]
             IN  IF name \notin installed
                 THEN [st |-> s2, res |-> Raise("TypeError", "Unrecognized scheme", name)]
                 ELSE LET made == UserPartitionSchemeInit(Sum(s2.pluginCalls) + 1, name)
                          s3 == [s2 EXCEPT !.pluginCalls[name] = s2.pluginCalls[name] + 1,
                                           !.SCHEMES[name] = made]
                      IN  [st |-> s3, res |-> Ok(made)]

\* ---------------------------------------------------------- UserPartition
\* UserPartition(id, name, description, groups, scheme, scheme_id)
UserPartitionNew(id, name, description, groups, scheme, scheme_id, oid, st) ==
    LET r == IF ~Truthy(scheme) THEN get_scheme(scheme_id, st)
             ELSE [st |-> st, res |-> Ok(scheme)]
        n == PyIntOf(id)
    IN  IF ~r.res.ok THEN r
        ELSE IF ~n.ok THEN [st |-> r.st, res |-> n]
        ELSE [st |-> r.st,
              res |-> Ok([cls |-> "UserPartition", oid |-> oid, id |-> n.val, name |-> name,
                          description |-> description, groups |-> groups,
                          scheme |-> r.res.val])]

\* Variant: the loop keeps the last group with the id, not the first.
RECURSIVE ScanGroups_last(_, _)
ScanGroups_last(groups, group_id) ==
    IF groups = <<>> THEN Ok(NoVal)
    ELSE LET rest == ScanGroups_last(Tail(groups), group_id)
         IN  IF rest.val.cls # "none" THEN rest
             ELSE IF PyEq(PyInt(Head(groups).id), group_id) THEN Ok(Head(groups))
             ELSE rest

\* UserPartition.get_group: the loop over self.groups; NoVal is None.
RECURSIVE ScanGroups(_, _)
ScanGroups(groups, group_id) ==
    IF groups = <<>> THEN Ok(NoVal)
    ELSE IF PyEq(PyInt(Head(groups).id), group_id) THEN Ok(Head(groups))
    ELSE ScanGroups(Tail(groups), group_id)

get_group(self, group_id) == ScanGroups(self.groups, group_id)

\* [g.to_json() for g in self.groups]
RECURSIVE GroupsToJson(_)
GroupsToJson(groups) ==
    IF groups = <<>> THEN <<>> ELSE <<GroupToJson(Head(groups))>> \o GroupsToJson(Tail(groups))

\* Variant: the layout of version 1, which has no scheme.
to_json_v1(self) ==
    Dict([id |-> PyInt(self.id), name |-> self.name,
          description |-> self.description, groups |-> GroupsToJson(self.groups),
          version |-> PyInt(1)])

\* UserPartition.to_json
to_json(self) ==
    Dict([id |-> PyInt(self.id), name |-> self.name, scheme |-> self.scheme.name,
          description |-> self.description, groups |-> GroupsToJson(self.groups),
          version |-> PyInt(VERSION)])

\* [Group.from_json(g) for g in value["groups"]]: the groups, or the first
\* exception; the new objects take the identities oid, oid + 1, ...
RECURSIVE GroupsFromJson(_, _)
GroupsFromJson(values, oid) ==
    IF values = <<>> THEN Ok(<<>>)
    ELSE LET g == GroupFromJson(Head(values), oid)
         IN  IF ~g.ok THEN g
             ELSE LET rest == GroupsFromJson(Tail(values), oid + 1)
                  IN  IF ~rest.ok THEN rest ELSE Ok(<<g.val>> \o rest.val)

\* Variant: a version 2 mapping without a scheme key gets the default.
SchemeIdOf_default(value) ==
    IF PyEq(value.d["version"], PyInt(1)) THEN Ok(VERSION_1_SCHEME)
    ELSE IF PyEq(value.d["version"], PyInt(VERSION))
         THEN IF ~HasKey(value, "scheme") THEN Ok(VERSION_1_SCHEME) ELSE Ok(value.d["scheme"])
    ELSE Raise("TypeError", "unexpected version", "")

\* The version dispatch of from_json (lines 172-180): the scheme id to use.
SchemeIdOf(value) ==
    IF PyEq(value.d["version"], PyInt(1)) THEN Ok(VERSION_1_SCHEME)
    ELSE IF PyEq(value.d["version"], PyInt(VERSION))
         THEN IF ~HasKey(value, "scheme")
              THEN Raise("TypeError", "missing value key", "scheme")
              ELSE Ok(value.d["scheme"])
    ELSE Raise("TypeError", "unexpected version", "")

\* from_json for a value that is no UserPartition (lines 168-193).
FromMapping(value, oid, st) ==
    LET missing == FirstMissing(value, <<"id", "name", "description", "version", "groups">>)
    IN  IF missing # "" THEN [st |-> st, res |-> Raise("TypeError", "missing value key", missing)]
        ELSE LET scheme_id == SchemeIdOf(value)
             IN  IF ~scheme_id.ok THEN [st |-> st, res |-> scheme_id]
                 ELSE LET groups == GroupsFromJson(value.d["groups"], oid)
                      IN  IF ~groups.ok THEN [st |-> st, res |-> groups]
                          ELSE LET r == get_scheme(scheme_id.val, st)
                               IN  IF ~r.res.ok THEN r
                                   ELSE IF ~Truthy(r.res.val)
                                   THEN [st |-> r.st, res |-> Raise("TypeError", "unrecognized scheme", scheme_id.val)]
                                   ELSE UserPartitionNew(value.d["id"], value.d["name"],
                                                         value.d["description"], groups.val,
                                                         r.res.val, VERSION_1_SCHEME,
                                                         oid + Len(value.d["groups"]), r.st)

\* Variant: a UserPartition is not handed back but rebuilt from its
\* serialized form.
from_json_copy(value, oid, st) ==
    FromMapping(IF IsUserPartition(value) THEN to_json(value) ELSE value, oid, st)

\* Variant: the scheme is resolved before the groups are deserialized.
from_json_schemefirst(value, oid, st) ==
    IF IsUserPartition(value) THEN [st |-> st, res |-> Ok(value)]
    ELSE LET missing == FirstMissing(value, <<"id", "name", "description", "version", "groups">>)
         IN  IF missing # "" THEN [st |-> st, res |-> Raise("TypeError", "missing value key", missing)]
             ELSE LET scheme_id == SchemeIdOf(value)
                  IN  IF ~scheme_id.ok THEN [st |-> st, res |-> scheme_id]
                      ELSE LET r == get_scheme(scheme_id.val, st)
                               groups == GroupsFromJson(value.d["groups"], oid)
                           IN  IF ~r.res.ok THEN r
                               ELSE IF ~groups.ok THEN [st |-> r.st, res |-> groups]
                               ELSE UserPartitionNew(value.d["id"], value.d["name"],
                                                     value.d["description"], groups.val,
                                                     r.res.val, VERSION_1_SCHEME,
                                                     oid + Len(value.d["groups"]), r.st)

\* UserPartition.from_json
from_json(value, oid, st) ==
    IF IsUserPartition(value) THEN [st |-> st, res |-> Ok(value)]
    ELSE FromMapping(value, oid, st)

\* ----------------------------------------------------------------- inputs
\* Ids given by callers: ints, numerals as strings (with blanks of several
\* kinds around the number and after the sign), strings that are no numeral
\* ("1_0" is none for Python 2.7), None and a list.
IntIds == {PyInt(1), PyInt(2)}
NumeralIds == {PyStr(<<"2">>), PyStr(<<" ", "-", "1", "2", " ">>),
               PyStr(<<"\t", "-", " ", "7", "\n">>)}
BadStrIds == {PyStr(<<"1", "x">>), PyStr(<<>>), PyStr(<<"1", "_", "0">>)}
BadTypeIds == {PyNoneVal, PyListVal}
Ids == IntIds \cup NumeralIds \cup BadStrIds \cup BadTypeIds

\* Versions found in serialized values: ints, and a version that is a string.
Versions == {PyInt(1), PyInt(2), PyInt(3), PyStr(<<"2">>)}

\* Group objects that exist before the calls of the behaviour.
G1 == [cls |-> "Group", oid |-> 101, id |-> 1, name |-> "A"]
G2 == [cls |-> "Group", oid |-> 102, id |-> 2, name |-> "B"]
G2c == [cls |-> "Group", oid |-> 103, id |-> 2, name |-> "C"]
GroupLists == {<<G1, G2>>, <<G2c, G1, G2>>}

GroupDictOf(id, version) == Dict([id |-> id, name |-> "A", version |-> version])
FullGroupDicts == {GroupDictOf(id, v) : id \in Ids, v \in Versions}
GroupKeys == {"id", "name", "version"}
GroupDicts ==
    FullGroupDicts
    \cup {Dict(Without(GroupDictOf(PyInt(1), v).d, k)) : k \in GroupKeys, v \in {PyInt(1), PyInt(2)}}
    \cup {Dict(Without(Without(GroupDictOf(PyInt(1), PyInt(1)).d, j), k)) : j, k \in GroupKeys}

\* Serialized group lists: well formed (empty, with a numeral id, with a
\* repeated id and an element that is already a Group), and with one bad
\* entry after a good one.
GD(id, name) == Dict([id |-> id, name |-> name, version |-> PyInt(1)])
\* Schemes built by the calling code and passed to the constructor: one
\* without an extension (its name is None), one per plugin name.
ManualSchemes == {UserPartitionSchemeInit(90, PyNone), UserPartitionSchemeInit(91, "random"),
                  UserPartitionSchemeInit(92, "cohort")}

PartitionIds == {PyInt(1), PyStr(<<"\t", "-", " ", "7", "\n">>), PyStr(<<"1", "x">>), PyNoneVal}
PartitionKeys == {"id", "name", "description", "version", "groups"}
PartitionDictOf(id, version, scheme, groups) ==
    Dict([id |-> id, name |-> "P", description |-> "d", version |-> version,
          scheme |-> scheme, groups |-> groups])
GoodGroupDictLists ==
    { <<>>,
      <<GD(PyInt(1), "A"), GD(PyStr(<<"2">>), "B")>>,
      <<G2c, GD(PyInt(1), "A"), GD(PyInt(2), "B")>> }
BadGroupDictLists ==
    { <<GD(PyInt(1), "A"), GD(PyStr(<<"1", "x">>), "B")>>,
      <<GD(PyInt(1), "A"), GD(PyNoneVal, "B")>>,
      <<GD(PyInt(1), "A"), Dict(Without(GD(PyInt(2), "B").d, "version"))>>,
      <<GD(PyInt(1), "A"), GroupDictOf(PyInt(2), PyInt(2))>> }
FullPartitionDicts ==
    {PartitionDictOf(id, v, sch, gs) :
        id \in PartitionIds, v \in Versions, sch \in SchemeIds, gs \in GoodGroupDictLists}
    \cup {PartitionDictOf(id, v, sch, gs) :
            id \in {PyInt(1), PyStr(<<"1", "x">>)}, v \in {PyInt(1), PyInt(2)},
            sch \in {"random", "no-such-scheme"}, gs \in BadGroupDictLists}
PartitionDicts ==
    FullPartitionDicts
    \cup {Dict(Without(m.d, "scheme")) :
            m \in {PartitionDictOf(id, v, "random", <<GD(PyInt(1), "A"), GD(PyStr(<<"2">>), "B")>>) :
                     id \in {PyInt(1), PyStr(<<"1", "x">>)}, v \in Versions}}
    \cup {Dict(Without(Without(PartitionDictOf(PyInt(1), v, "random", <<>>).d, j), k)) :
            j, k \in PartitionKeys, v \in {PyInt(1), PyInt(2)}}

\* ---------------------------------------------------------------- actions
\* Identity of the first object a call creates: each call has its own range.
OidStride == 4
OidOfCall(k) == 1 + k * OidStride
FreshOid == OidOfCall(ncalls)

Snapshot == [SCHEMES |-> SCHEMES, SCHEME_EXTENSIONS |-> SCHEME_EXTENSIONS,
             managersCreated |-> managersCreated, pluginCalls |-> pluginCalls]

Pure(res) == [st |-> Process, res |-> res]

\* One call by the client code: r is the state after the call and its result.
Call(op, self, arg, src, r) ==
    /\ ncalls < MaxCalls
    /\ ncalls' = ncalls + 1
    /\ SCHEMES' = r.st.SCHEMES
    /\ SCHEME_EXTENSIONS' = r.st.SCHEME_EXTENSIONS
    /\ managersCreated' = r.st.managersCreated
    /\ pluginCalls' = r.st.pluginCalls
    /\ last' = [op |-> op, self |-> self, arg |-> arg, src |-> src, res |-> r.res,
                pre |-> Snapshot, lookups |-> r.st.lookups]
    /\ UNCHANGED installed

Returned(cls) == last.res.ok /\ last.op # "none" /\ last.op # "get_scheme"
                 /\ last.res.val.cls = cls

DoGroupNew ==
    \E id \in Ids :
        Call("Group", NoVal, [id |-> id, name |-> "A"], NoVal, Pure(GroupNew(id, "A", FreshOid)))

DoGroupFromJson ==
    \E value \in GroupDicts \cup (IF Returned("Group") THEN {last.res.val} ELSE {}) :
        Call("Group.from_json", NoVal, value, NoVal, Pure(GroupFromJson(value, FreshOid)))

\* With a scheme object the scheme_id is left at its default.
DoUserPartitionNew ==
    \E id \in PartitionIds, groups \in GroupLists,
       scheme \in ManualSchemes \cup {NoScheme}, scheme_id \in SchemeIds :
        /\ Truthy(scheme) => scheme_id = VERSION_1_SCHEME
        /\ Call("UserPartition", NoVal,
                [id |-> id, groups |-> groups, scheme |-> scheme, scheme_id |-> scheme_id], NoVal,
                UserPartitionNew(id, "P", "d", groups, scheme, scheme_id, FreshOid, Process))

DoGetScheme ==
    \E name \in SchemeIds :
        Call("get_scheme", NoVal, name, NoVal, get_scheme(name, Process))

DoToJson ==
    /\ Returned("UserPartition")
    /\ Call("to_json", last.res.val, NoVal, NoVal, Pure(Ok(to_json(last.res.val))))

DoFromJson ==
    \/ \E value \in PartitionDicts :
          Call("from_json", NoVal, value, NoVal, from_json(value, FreshOid, Process))
    \/ /\ Returned("UserPartition")
       /\ Call("from_json", NoVal, last.res.val, NoVal, from_json(last.res.val, FreshOid, Process))
    \/ /\ last.op = "to_json"
       /\ Call("from_json", NoVal, last.res.val, last.self, from_json(last.res.val, FreshOid, Process))

DoGetGroup ==
    /\ Returned("UserPartition")
    /\ \E group_id \in Ids :
          Call("get_group", last.res.val, group_id, NoVal, Pure(get_group(last.res.val, group_id)))

Init ==
    /\ installed \in SUBSET PluginNames
    /\ SCHEMES = [n \in SchemeIds |-> NoScheme]
    /\ SCHEME_EXTENSIONS = 0
    /\ managersCreated = 0
    /\ pluginCalls = [n \in SchemeIds |-> 0]
    /\ ncalls = 0
    /\ last = [op |-> "none", self |-> NoVal, arg |-> NoVal, src |-> NoVal, res |-> Ok(NoVal),
               pre |-> [SCHEMES |-> [n \in SchemeIds |-> NoScheme], SCHEME_EXTENSIONS |-> 0,
                        managersCreated |-> 0, pluginCalls |-> [n \in SchemeIds |-> 0]],
               lookups |-> <<>>]

Next ==
    \/ DoGroupNew
    \/ DoGroupFromJson
    \/ DoUserPartitionNew
    \/ DoGetScheme
    \/ DoToJson
    \/ DoFromJson
    \/ DoGetGroup

Spec == Init /\ [][Next]_vars

\* ------------------------------------------------------- claim vocabulary
\* The integer each coercible input id denotes, and the two ways an id can
\* fail to be coercible; written out by hand, independently of PyIntOf.
Coercible(id) == id.t = "int" \/ id \in NumeralIds
ExpectedInt(id) ==
    CASE id.t = "int" -> id.i
      [] id = PyStr(<<"2">>) -> 2
      [] id = PyStr(<<" ", "-", "1", "2", " ">>) -> 0 - 12
      [] id = PyStr(<<"\t", "-", " ", "7", "\n">>) -> 0 - 7
ConversionError(id) == IF id \in BadTypeIds THEN "TypeError" ELSE "ValueError"

\* A group entry Group.from_json accepts: a Group, or a mapping with the
\* three keys, version 1 and a coercible id.
GoodGroupEntry(e) ==
    \/ e.cls = "Group"
    \/ /\ e.cls = "dict"
       /\ GroupKeys \subseteq DOMAIN e.d
       /\ e.d.version = PyInt(1)
       /\ Coercible(e.d.id)
GoodGroupEntries(entries) == \A i \in 1..Len(entries) : GoodGroupEntry(entries[i])

\* The process-wide state is what it was before the last call.
StateAsBefore ==
    /\ SCHEMES = last.pre.SCHEMES
    /\ SCHEME_EXTENSIONS = last.pre.SCHEME_EXTENSIONS
    /\ managersCreated = last.pre.managersCreated
    /\ pluginCalls = last.pre.pluginCalls

IsDictArg == last.arg.cls = "dict"
HasAll(keys) == keys \subseteq DOMAIN last.arg.d

\* Two group sequences agree in length, order, ids and names.
SameGroups(a, b) ==
    /\ Len(a) = Len(b)
    /\ \A i \in 1..Len(a) : a[i].id = b[i].id /\ a[i].name = b[i].name

\* C1: a UserPartition whose scheme name the registry resolves is returned
\* field by field by from_json(to_json(p)): same id, name, description, the
\* groups in the same order, and a scheme of the same name.
C1_RoundTrip ==
    (last.op = "from_json" /\ last.src.cls = "UserPartition"
        /\ last.src.scheme.name \in installed)
    => /\ last.res.ok
       /\ last.res.val.cls = "UserPartition"
       /\ last.res.val.id = last.src.id
       /\ last.res.val.name = last.src.name
       /\ last.res.val.description = last.src.description
       /\ SameGroups(last.res.val.groups, last.src.groups)
       /\ last.res.val.scheme.name = last.src.scheme.name

\* A round trip of a partition with three groups, two of them with the same
\* id, whose scheme object was built by the caller: the scheme that comes
\* back is the cached one of the same name, another object.
C1_Witness ==
    /\ last.op = "from_json" /\ last.src.cls = "UserPartition"
    /\ last.src.scheme.name = "cohort"
    /\ last.src.scheme.inst = 92
    /\ Len(last.src.groups) = 3
    /\ last.res.ok
    /\ last.res.val.scheme.inst # 92
    /\ last.res.val.oid # last.src.oid

\* The scheme a successful call resolved, NoScheme when it resolved none.
Resolved ==
    IF ~last.res.ok THEN NoScheme
    ELSE IF last.op = "get_scheme" THEN last.res.val
    ELSE IF last.op = "UserPartition" /\ ~Truthy(last.arg.scheme) THEN last.res.val.scheme
    ELSE IF last.op = "from_json" /\ IsDictArg THEN last.res.val.scheme
    ELSE NoScheme

\* C2: every successful resolution of a name returns the instance the cache
\* holds for that name, a cached entry is never replaced or removed, and the
\* factory of a name is invoked at most once.
C2_SchemeCacheIdentity ==
    /\ \A n \in SchemeIds : pluginCalls[n] <= 1
    /\ \A n \in SchemeIds : Truthy(last.pre.SCHEMES[n]) => SCHEMES[n] = last.pre.SCHEMES[n]
    /\ Truthy(Resolved) => /\ SCHEMES[Resolved.name] = Resolved
                           /\ Resolved.inst < 90

\* A resolution through from_json of a name that an earlier call cached,
\* while the other plugin is cached too.
C2_Witness ==
    /\ last.op = "from_json" /\ IsDictArg /\ last.res.ok
    /\ Truthy(last.pre.SCHEMES[last.res.val.scheme.name])
    /\ \A n \in PluginNames : Truthy(SCHEMES[n])

\* The names the last call asked a scheme for, as far as it shows: the
\* registry lookups, the scheme of the result, the name in the error.
UsedSchemeIds ==
    {last.lookups[i] : i \in 1..Len(last.lookups)}
    \cup (IF last.res.ok THEN {last.res.val.scheme.name} ELSE {})
    \cup (IF ~last.res.ok /\ last.res.why = "Unrecognized scheme" THEN {last.res.key} ELSE {})

\* C3: from_json of a mapping with the keys id, name, description, version
\* and groups: version 1 uses the scheme id "random" and never asks for a
\* scheme key; version 2 without a scheme key is a type error and with one
\* uses its value; any other version is a type error.
C3_VersionDispatch ==
    (last.op = "from_json" /\ IsDictArg /\ HasAll(PartitionKeys))
    => LET value == last.arg.d
       IN  /\ value.version = PyInt(1)
              => /\ UsedSchemeIds \subseteq {"random"}
                 /\ ~(~last.res.ok /\ last.res.key = "scheme")
                 /\ (GoodGroupEntries(value.groups) /\ Coercible(value.id)
                        /\ "random" \in installed) => last.res.ok
           /\ (value.version = PyInt(2) /\ "scheme" \notin DOMAIN value)
              => /\ ~last.res.ok /\ last.res.err = "TypeError"
                 /\ last.res.why = "missing value key" /\ last.res.key = "scheme"
                 /\ UsedSchemeIds = {}
           /\ (value.version = PyInt(2) /\ "scheme" \in DOMAIN value)
              => /\ UsedSchemeIds \subseteq {value.scheme}
                 /\ (GoodGroupEntries(value.groups) /\ Coercible(value.id)
                        /\ value.scheme \in installed) => last.res.ok
           /\ value.version \notin {PyInt(1), PyInt(2)}
              => /\ ~last.res.ok /\ last.res.err = "TypeError"
                 /\ last.res.why = "unexpected version"
                 /\ UsedSchemeIds = {}

\* A version 1 mapping that carries a scheme key naming another plugin is
\* deserialized with the scheme "random".
C3_Witness ==
    /\ last.op = "from_json" /\ IsDictArg /\ HasAll(PartitionKeys \cup {"scheme"})
    /\ last.arg.d.version = PyInt(1)
    /\ last.arg.d.scheme = "cohort"
    /\ last.res.ok
    /\ last.res.val.scheme.name = "random"

IsConstruction == last.op \in {"Group", "UserPartition"}

\* C4 as stated: a Group or UserPartition constructed with an id that is not
\* coercible to an integer fails with a type error, whatever the id; with a
\* coercible id the stored id is the integer.
C4_TypeErrorForEveryBadId ==
    IsConstruction
    => /\ ~Coercible(last.arg.id) => (~last.res.ok /\ last.res.err = "TypeError")
       /\ (Coercible(last.arg.id) /\ last.res.ok) => last.res.val.id = ExpectedInt(last.arg.id)

\* The constructor of UserPartition resolves the scheme before it converts
\* the id: this is the case where that resolution fails.
SchemeUnresolved ==
    /\ last.op = "UserPartition"
    /\ ~Truthy(last.arg.scheme)
    /\ last.arg.scheme_id \notin installed

\* C4 amended: a construction with a non-coercible id always fails; the
\* error is the one of the integer conversion, a type error for an id of a
\* non-numeric type and a value error for a string that is no numeral,
\* unless the scheme of a UserPartition has to be resolved and is not
\* recognized, which is reported first as a type error; with a coercible id
\* and a scheme that is given or resolves, the stored id is the integer.
C4_ConversionErrorKind ==
    IsConstruction
    => /\ ~Coercible(last.arg.id) => ~last.res.ok
       /\ SchemeUnresolved
          => /\ ~last.res.ok /\ last.res.err = "TypeError"
             /\ last.res.why = "Unrecognized scheme"
       /\ (~SchemeUnresolved /\ ~Coercible(last.arg.id))
          => last.res.err = ConversionError(last.arg.id)
       /\ (~SchemeUnresolved /\ Coercible(last.arg.id))
          => /\ last.res.ok
             /\ last.res.val.id = ExpectedInt(last.arg.id)

\* A UserPartition built with an id that is a string but no numeral: the
\* failure is a value error.
C4_Witness ==
    /\ last.op = "UserPartition"
    /\ last.arg.id = PyStr(<<"1", "x">>)
    /\ ~SchemeUnresolved
    /\ ~last.res.ok
    /\ last.res.err = "ValueError"

\* The first of id, name, version that the mapping lacks, "" if none.
FirstAbsentGroupKey ==
    IF "id" \notin DOMAIN last.arg.d THEN "id"
    ELSE IF "name" \notin DOMAIN last.arg.d THEN "name"
    ELSE IF "version" \notin DOMAIN last.arg.d THEN "version"
    ELSE ""

GroupKeyAndVersionErrors ==
    /\ FirstAbsentGroupKey # ""
       => /\ ~last.res.ok /\ last.res.err = "TypeError"
          /\ last.res.why = "missing value key"
          /\ last.res.key = FirstAbsentGroupKey
    /\ (FirstAbsentGroupKey = "" /\ last.arg.d.version # PyInt(1))
       => /\ ~last.res.ok /\ last.res.err = "TypeError"
          /\ last.res.why = "unexpected version"

GroupAccepted == FirstAbsentGroupKey = "" /\ last.arg.d.version = PyInt(1)

\* C5 as stated: Group.from_json of a mapping fails with a type error naming
\* the first absent key of id, name, version; with the three keys and a
\* version other than 1 it fails with a type error; otherwise it returns a
\* new Group built from value.id and value.name.
C5_OtherwiseReturnsGroup ==
    (last.op = "Group.from_json" /\ IsDictArg)
    => /\ GroupKeyAndVersionErrors
       /\ GroupAccepted
          => /\ last.res.ok
             /\ last.res.val.cls = "Group"
             /\ last.res.val.name = last.arg.d.name

\* C5 amended: the same two failures; otherwise the call builds
\* Group(value.id, value.name): it returns a new Group with the integer of
\* value.id and with value.name when value.id is coercible to an integer,
\* and fails with the error of the integer conversion when it is not.
C5_GroupFromJsonValidation ==
    (last.op = "Group.from_json" /\ IsDictArg)
    => /\ GroupKeyAndVersionErrors
       /\ (GroupAccepted /\ Coercible(last.arg.d.id))
          => /\ last.res.ok
             /\ last.res.val.cls = "Group"
             /\ last.res.val.id = ExpectedInt(last.arg.d.id)
             /\ last.res.val.name = last.arg.d.name
             /\ last.res.val.oid = OidOfCall(ncalls - 1)
       /\ (GroupAccepted /\ ~Coercible(last.arg.d.id))
          => /\ ~last.res.ok
             /\ last.res.err = ConversionError(last.arg.d.id)
       /\ StateAsBefore

\* A mapping with the three keys, version 1 and an id that is no numeral:
\* neither a Group nor a type error.
C5_Witness ==
    /\ last.op = "Group.from_json" /\ IsDictArg
    /\ GroupAccepted
    /\ last.arg.d.id = PyStr(<<>>)
    /\ ~last.res.ok
    /\ last.res.err = "ValueError"

IsPassThrough ==
    \/ last.op = "Group.from_json" /\ last.arg.cls = "Group"
    \/ last.op = "from_json" /\ last.arg.cls = "UserPartition"

\* C6: from_json of Group given a Group, and of UserPartition given a
\* UserPartition, returns that very object, checks nothing, and neither
\* reads the registry nor touches the scheme cache.
C6_PassThrough ==
    IsPassThrough
    => /\ last.res.ok
       /\ last.res.val = last.arg
       /\ last.lookups = <<>>
       /\ StateAsBefore

\* A UserPartition whose scheme has no name, which no serialized form could
\* name, passes through from_json while the cache is empty and no registry
\* exists.
C6_Witness ==
    /\ last.op = "from_json" /\ last.arg.cls = "UserPartition"
    /\ last.arg.scheme.name = PyNone
    /\ last.res.ok /\ last.res.val.oid = last.arg.oid
    /\ SCHEME_EXTENSIONS = 0

\* The positions of the groups of the partition whose id equals the id
\* asked for.
Matches == {i \in 1..Len(last.self.groups) : PyInt(last.self.groups[i].id) = last.arg}

\* C7: get_group returns the first group, in the order of groups, whose id
\* is the one asked for, returns None exactly when there is none, and
\* changes nothing.
C7_GetGroupFirstMatch ==
    last.op = "get_group"
    => /\ last.res.ok
       /\ (Matches = {}) <=> (last.res.val.cls = "none")
       /\ Matches # {}
          => last.res.val = last.self.groups[CHOOSE i \in Matches : \A j \in Matches : i <= j]
       /\ StateAsBefore

\* Two groups of the partition have the id asked for, and the one that
\* comes first in the list is returned.
C7_Witness ==
    /\ last.op = "get_group"
    /\ Cardinality(Matches) = 2
    /\ 1 \in Matches
    /\ last.res.val = last.self.groups[1]
    /\ last.res.val.name = "C"

CacheMiss == last.op = "get_scheme" /\ ~Truthy(last.pre.SCHEMES[last.arg])

\* get_scheme of a name that is neither cached nor in the registry is a
\* type error, creates no scheme and caches nothing, and asks the registry,
\* on the first call as on every later one.
UnknownNameRefused ==
    (CacheMiss /\ last.arg \notin installed)
    => /\ ~last.res.ok /\ last.res.err = "TypeError"
       /\ last.res.why = "Unrecognized scheme" /\ last.res.key = last.arg
       /\ pluginCalls = last.pre.pluginCalls
       /\ SCHEMES = last.pre.SCHEMES
       /\ ~Truthy(SCHEMES[last.arg])
       /\ last.lookups = <<last.arg>>

\* from_json was given a version 2 mapping whose scheme key names a scheme
\* the registry does not have.
NamesUnknownScheme ==
    /\ last.op = "from_json" /\ IsDictArg
    /\ {"version", "scheme"} \subseteq DOMAIN last.arg.d
    /\ last.arg.d.version = PyInt(2)
    /\ last.arg.d.scheme \notin installed

\* C8 as stated: get_scheme of a name that is neither cached nor in the
\* registry is a type error, creates no scheme and caches nothing, so that
\* every later call with that name asks the registry again; from_json of a
\* version 2 mapping naming such a scheme fails with the same kind of error,
\* a type error.
C8_FromJsonAlwaysTypeError ==
    /\ UnknownNameRefused
    /\ NamesUnknownScheme => (~last.res.ok /\ last.res.err = "TypeError")

\* The first entry of the groups of the mapping that Group.from_json
\* refuses, and the error class of that refusal.
FirstBadEntry ==
    LET bad == {i \in 1..Len(last.arg.d.groups) : ~GoodGroupEntry(last.arg.d.groups[i])}
    IN  last.arg.d.groups[CHOOSE i \in bad : \A j \in bad : i <= j]
EntryError(e) ==
    IF ~(GroupKeys \subseteq DOMAIN e.d) \/ e.d.version # PyInt(1) THEN "TypeError"
    ELSE ConversionError(e.d.id)

\* C8 amended: the same for get_scheme; from_json of a version 2 mapping
\* naming such a scheme always fails and caches nothing: with the
\* unrecognized-scheme type error when the mapping has the required keys and
\* its group entries deserialize; before the scheme is looked up, without a
\* registry lookup, when a required key is missing (a type error) or a group
\* entry is invalid (the error of the first invalid entry: a type error, or
\* the value error of the integer conversion when its id is a string that is
\* no numeral).
C8_UnrecognizedScheme ==
    /\ UnknownNameRefused
    /\ NamesUnknownScheme
       => /\ ~last.res.ok
          /\ SCHEMES = last.pre.SCHEMES
          /\ pluginCalls = last.pre.pluginCalls
          /\ ~HasAll(PartitionKeys)
             => /\ last.res.err = "TypeError" /\ last.res.why = "missing value key"
                /\ last.lookups = <<>> /\ StateAsBefore
          /\ (HasAll(PartitionKeys) /\ ~GoodGroupEntries(last.arg.d.groups))
             => /\ last.res.err = EntryError(FirstBadEntry)
                /\ last.lookups = <<>> /\ StateAsBefore
          /\ (HasAll(PartitionKeys) /\ GoodGroupEntries(last.arg.d.groups))
             => /\ last.res.err = "TypeError"
                /\ last.res.why = "Unrecognized scheme" /\ last.res.key = last.arg.d.scheme
                /\ last.lookups = <<last.arg.d.scheme>>

\* from_json of a version 2 mapping that names an unknown scheme and has a
\* group entry whose id is no numeral: the call fails with a value error
\* before any scheme is looked up.
C8_Witness ==
    /\ NamesUnknownScheme /\ HasAll(PartitionKeys)
    /\ last.arg.d.scheme = "no-such-scheme"
    /\ ~GoodGroupEntries(last.arg.d.groups)
    /\ FirstBadEntry.d.id = PyStr(<<"1", "x">>)
    /\ ~last.res.ok /\ last.res.err = "ValueError"
    /\ last.lookups = <<>>

IsDeserialization == last.op = "from_json" /\ IsDictArg

\* C9 as stated: from_json returns a UserPartition, or it fails, returns
\* nothing and leaves the scheme cache and the registry handle as they were.
C9_FailureLeavesStateAsBefore ==
    IsDeserialization
    => \/ last.res.ok /\ last.res.val.cls = "UserPartition"
       \/ ~last.res.ok /\ last.res.val = NoVal
            /\ SCHEMES = last.pre.SCHEMES
            /\ SCHEME_EXTENSIONS = last.pre.SCHEME_EXTENSIONS

\* The mapping fails one of the checks made before the scheme is resolved:
\* a key, the version, or a group entry.
FailsBeforeScheme ==
    \/ ~HasAll(PartitionKeys)
    \/ last.arg.d.version \notin {PyInt(1), PyInt(2)}
    \/ last.arg.d.version = PyInt(2) /\ "scheme" \notin DOMAIN last.arg.d
    \/ ~GoodGroupEntries(last.arg.d.groups)

\* The scheme id a mapping that passes those checks asks for.
AskedScheme == IF last.arg.d.version = PyInt(1) THEN "random" ELSE last.arg.d.scheme

\* A failing call only ever adds to the process-wide state: entries of the
\* cache and the registry handle that existed are kept.
OnlyAdded ==
    /\ \A n \in SchemeIds : Truthy(last.pre.SCHEMES[n]) => SCHEMES[n] = last.pre.SCHEMES[n]
    /\ last.pre.SCHEME_EXTENSIONS # 0 => SCHEME_EXTENSIONS = last.pre.SCHEME_EXTENSIONS

\* C9 amended: from_json returns a UserPartition, or fails and returns
\* nothing.  A failure on a missing key, an unexpected version or an
\* invalid group entry leaves the process-wide state as before; a failure
\* on an unrecognized scheme leaves the cache as before but may have
\* created the registry handle; a failure on a non-coercible partition id
\* comes after the scheme has been resolved and cached.  No failing call
\* changes an existing cache entry or an existing handle.
C9_FailureReturnsNothing ==
    IsDeserialization
    => \/ last.res.ok /\ last.res.val.cls = "UserPartition"
       \/ /\ ~last.res.ok /\ last.res.val = NoVal
          /\ OnlyAdded
          /\ FailsBeforeScheme => StateAsBefore
          /\ (~FailsBeforeScheme /\ AskedScheme \notin installed)
             => /\ SCHEMES = last.pre.SCHEMES
                /\ SCHEME_EXTENSIONS # 0
          /\ (~FailsBeforeScheme /\ AskedScheme \in installed)
             => /\ ~Coercible(last.arg.d.id)
                /\ Truthy(SCHEMES[AskedScheme])
                /\ \A n \in SchemeIds \ {AskedScheme} : SCHEMES[n] = last.pre.SCHEMES[n]

\* A deserialization that fails on the partition id after it has created the
\* registry handle and cached the scheme.
C9_Witness ==
    /\ IsDeserialization /\ ~last.res.ok
    /\ last.res.err = "ValueError"
    /\ last.pre.SCHEME_EXTENSIONS = 0 /\ SCHEME_EXTENSIONS # 0
    /\ ~Truthy(last.pre.SCHEMES["random"]) /\ Truthy(SCHEMES["random"])

\* C10: the registry handle is created at most once, by the first call that
\* misses the scheme cache (every miss leaves a handle, and a handle is kept
\* once it exists); a call of get_scheme that hits the cache neither creates
\* nor asks the registry.
C10_LazyRegistryInit ==
    /\ managersCreated <= 1
    /\ managersCreated # last.pre.managersCreated
       => /\ last.pre.SCHEME_EXTENSIONS = 0 /\ last.pre.managersCreated = 0
          /\ last.lookups # <<>>
          /\ \A n \in SchemeIds : ~Truthy(last.pre.SCHEMES[n])
    /\ last.lookups # <<>> => SCHEME_EXTENSIONS # 0
    /\ last.pre.SCHEME_EXTENSIONS # 0 => SCHEME_EXTENSIONS = last.pre.SCHEME_EXTENSIONS
    /\ (SCHEME_EXTENSIONS = 0) <=> (managersCreated = 0)
    /\ (last.op = "get_scheme" /\ Truthy(last.pre.SCHEMES[last.arg]))
       => /\ last.res.ok
          /\ last.lookups = <<>>
          /\ managersCreated = last.pre.managersCreated
          /\ SCHEME_EXTENSIONS = last.pre.SCHEME_EXTENSIONS

\* A third call that misses the cache, after two misses of which the first
\* created the registry: it asks the one registry and creates none.
C10_Witness ==
    /\ ncalls = 3
    /\ CacheMiss
    /\ last.pre.SCHEME_EXTENSIONS # 0
    /\ last.lookups # <<>>
    /\ managersCreated = 1
    /\ Truthy(SCHEMES["random"]) /\ Truthy(SCHEMES["cohort"])

====
